---- MODULE Spec2Model ----
(***************************************************************************)
(* Model of the event normalisation and branch resolution core of          *)
(* claude-code-action:                                                     *)
(*   prepareContext        src/src/create-prompt/index.ts  114-353         *)
(*   determineBranchWithAI src/src/create-prompt/index.ts  848-959         *)
(*   setupBranch           src/unnamed/part_000             22-186         *)
(*                                                                         *)
(* JavaScript values are modelled as follows.  A string is a TLA+ string.  *)
(* A value of type `T | undefined` (or `T | null`) is a sequence of length *)
(* at most one: <<>> is undefined/null and <<v>> is the value v.  The       *)
(* truthiness test `!x` of the source is Truthy below.  An object literal  *)
(* is a record, and the conditional spread `...(c && {f})` is Spread.       *)
(***************************************************************************)
EXTENDS Integers, Sequences, FiniteSets, TLC

VARIABLES
    context,          \* ParsedGitHubContext handed to the operation
    claudeCommentId,  \* prepareContext argument
    baseBranchArg,    \* prepareContext argument baseBranch?: string
    claudeBranchArg,  \* prepareContext argument claudeBranch?: string
    prepared,         \* outcome of prepareContext: not called / returned / thrown
    githubData,       \* FetchDataResult: the entity snapshot
    remote,           \* the repository on the hosting system: branch list, default branch
    env,              \* process.env: the credentials of the completion API
    advisor,          \* what the completion API answers to messages.create
    now,              \* the wall clock read by new Date()
    git,              \* the local checkout: HEAD, local branches, commands run
    outputs,          \* values set with core.setOutput
    sb,               \* frame of setupBranch: position, locals, outcome
    ai,               \* frame of determineBranchWithAI: position, locals, outcome
    cp,               \* frame of createPrompt: position, prompt file, exports, outcome
    session           \* the runs triggered so far on one issue and its pull request

pcVars == <<context, claudeCommentId, baseBranchArg, claudeBranchArg, prepared>>
branchVars == <<githubData, remote, env, advisor, now, git, outputs, sb, ai>>
runVars == <<cp, session>>
vars == <<context, claudeCommentId, baseBranchArg, claudeBranchArg, prepared,
          githubData, remote, env, advisor, now, git, outputs, sb, ai,
          cp, session>>

----------------------------------------------------------------------------
(* Optional values and JavaScript truthiness *)

None == <<>>
Some(v) == <<v>>

\* Variant: only undefined counts as missing, the empty string passes
Truthy_definedOnly(o) == o # None

\* `!x` is false exactly for a defined, non-empty string
Truthy(o) == o # None /\ o[1] # ""

\* ...(x && { name: x }) : the field is added only when x is truthy
Spread(name, o) == IF Truthy(o) THEN [f \in {name} |-> o[1]] ELSE <<>>

\* Number.prototype.toString() of a non-negative integer
NumToString(n) == ToString(n)

\* Array.prototype.join(",")
RECURSIVE JoinComma(_)
JoinComma(list) ==
    IF list = <<>> THEN ""
    ELSE IF Len(list) = 1 THEN list[1]
    ELSE list[1] \o "," \o JoinComma(Tail(list))

----------------------------------------------------------------------------
(* Event kinds and type guards *)

SupportedEvents ==
    {"pull_request_review_comment", "pull_request_review", "issue_comment",
     "issues", "pull_request"}

isIssuesEvent(ctx) == ctx.eventName = "issues"
isIssueCommentEvent(ctx) == ctx.eventName = "issue_comment"
isPullRequestReviewEvent(ctx) == ctx.eventName = "pull_request_review"
isPullRequestReviewCommentEvent(ctx) == ctx.eventName = "pull_request_review_comment"

----------------------------------------------------------------------------
(* prepareContext *)

Thrown(msg) == [returned |-> FALSE, error |-> msg]
Returned(v) == [returned |-> TRUE, value |-> v]

\* lines 132-134
prNumberOf(ctx) ==
    IF ctx.isPR THEN Some(NumToString(ctx.entityNumber)) ELSE None
\* Variant: the issue number is taken under the inverted isPR test
issueNumberOf_inverted(ctx) ==
    IF ctx.isPR THEN Some(NumToString(ctx.entityNumber)) ELSE None
issueNumberOf(ctx) ==
    IF ~ctx.isPR THEN Some(NumToString(ctx.entityNumber)) ELSE None

\* lines 137-154: comment data by event type
commentIdOf(ctx) ==
    IF isIssueCommentEvent(ctx) THEN Some(NumToString(ctx.payload.comment.id))
    ELSE IF isPullRequestReviewEvent(ctx) THEN None
    ELSE IF isPullRequestReviewCommentEvent(ctx)
         THEN Some(NumToString(ctx.payload.comment.id))
    ELSE None

commentBodyOf(ctx) ==
    IF isIssueCommentEvent(ctx) THEN Some(ctx.payload.comment.body)
    ELSE IF isPullRequestReviewEvent(ctx)
         THEN (IF ctx.payload.review.body = None THEN Some("")
               ELSE ctx.payload.review.body)
    ELSE IF isPullRequestReviewCommentEvent(ctx)
         THEN Some(ctx.payload.comment.body)
    ELSE None

triggerUsernameOf(ctx) ==
    IF isIssueCommentEvent(ctx) THEN Some(ctx.payload.comment.user.login)
    ELSE IF isPullRequestReviewEvent(ctx) THEN Some(ctx.payload.review.user.login)
    ELSE IF isPullRequestReviewCommentEvent(ctx)
         THEN Some(ctx.payload.comment.user.login)
    ELSE IF isIssuesEvent(ctx) THEN Some(ctx.payload.issue.user.login)
    ELSE None

\* lines 157-169
commonFieldsOf(ctx, commentIdArg, claudeBranch) ==
    [repository |-> ctx.repository.full_name,
     claudeCommentId |-> commentIdArg,
     triggerPhrase |-> IF Truthy(ctx.inputs.triggerPhrase)
                       THEN ctx.inputs.triggerPhrase[1] ELSE "@claude"]
    @@ Spread("triggerUsername", triggerUsernameOf(ctx))
    @@ Spread("customInstructions", ctx.inputs.customInstructions)
    @@ (IF Len(ctx.inputs.allowedTools) > 0
        THEN [allowedTools |-> JoinComma(ctx.inputs.allowedTools)] ELSE <<>>)
    @@ (IF Len(ctx.inputs.disallowedTools) > 0
        THEN [disallowedTools |-> JoinComma(ctx.inputs.disallowedTools)] ELSE <<>>)
    @@ Spread("directPrompt", ctx.inputs.directPrompt)
    @@ Spread("claudeBranch", claudeBranch)

\* lines 175-200
ReviewCommentCase(ctx, baseBranch, claudeBranch) ==
    LET prNumber == prNumberOf(ctx)
        commentId == commentIdOf(ctx)
        commentBody == commentBodyOf(ctx)
    IN  IF ~Truthy(prNumber)
        THEN Thrown("PR_NUMBER is required for pull_request_review_comment event")
        ELSE IF ~ctx.isPR
        THEN Thrown("IS_PR must be true for pull_request_review_comment event")
        ELSE IF ~Truthy(commentBody)
        THEN Thrown("COMMENT_BODY is required for pull_request_review_comment event")
        ELSE Returned(
            [eventName |-> "pull_request_review_comment",
             isPR |-> TRUE,
             prNumber |-> prNumber[1],
             commentBody |-> commentBody[1]]
            @@ Spread("commentId", commentId)
            @@ Spread("claudeBranch", claudeBranch)
            @@ Spread("baseBranch", baseBranch))

\* lines 202-222
ReviewCase(ctx, baseBranch, claudeBranch) ==
    LET prNumber == prNumberOf(ctx)
        commentBody == commentBodyOf(ctx)
    IN  IF ~Truthy(prNumber)
        THEN Thrown("PR_NUMBER is required for pull_request_review event")
        ELSE IF ~ctx.isPR
        THEN Thrown("IS_PR must be true for pull_request_review event")
        ELSE IF ~Truthy(commentBody)
        THEN Thrown("COMMENT_BODY is required for pull_request_review event")
        ELSE Returned(
            [eventName |-> "pull_request_review",
             isPR |-> TRUE,
             prNumber |-> prNumber[1],
             commentBody |-> commentBody[1]]
            @@ Spread("claudeBranch", claudeBranch)
            @@ Spread("baseBranch", baseBranch))

\* lines 224-267
IssueCommentCase(ctx, baseBranch, claudeBranch) ==
    LET prNumber == prNumberOf(ctx)
        issueNumber == issueNumberOf(ctx)
        commentId == commentIdOf(ctx)
        commentBody == commentBodyOf(ctx)
    IN  IF ~Truthy(commentId)
        THEN Thrown("COMMENT_ID is required for issue_comment event")
        ELSE IF ~Truthy(commentBody)
        THEN Thrown("COMMENT_BODY is required for issue_comment event")
        ELSE IF ctx.isPR
        THEN (IF ~Truthy(prNumber)
              THEN Thrown("PR_NUMBER is required for issue_comment event for PRs")
              ELSE Returned(
                  [eventName |-> "issue_comment",
                   commentId |-> commentId[1],
                   isPR |-> TRUE,
                   prNumber |-> prNumber[1],
                   commentBody |-> commentBody[1]]
                  @@ Spread("claudeBranch", claudeBranch)
                  @@ Spread("baseBranch", baseBranch)))
        ELSE IF ~Truthy(claudeBranch)
        THEN Thrown("CLAUDE_BRANCH is required for issue_comment event")
        ELSE IF ~Truthy(baseBranch)
        THEN Thrown("BASE_BRANCH is required for issue_comment event")
        ELSE IF ~Truthy(issueNumber)
        THEN Thrown("ISSUE_NUMBER is required for issue_comment event for issues")
        ELSE Returned(
            [eventName |-> "issue_comment",
             commentId |-> commentId[1],
             isPR |-> FALSE,
             claudeBranch |-> claudeBranch[1],
             baseBranch |-> baseBranch[1],
             issueNumber |-> issueNumber[1],
             commentBody |-> commentBody[1]])

\* Variant: a direct instruction does not stand in for the assignee trigger
AssignedCase_triggerOnly(ctx, issueNumber, baseBranch, claudeBranch) ==
    LET assigneeTrigger == ctx.inputs.assigneeTrigger
    IN  IF ~Truthy(assigneeTrigger)
        THEN Thrown("ASSIGNEE_TRIGGER is required for issue assigned event")
        ELSE Returned(
            [eventName |-> "issues",
             eventAction |-> "assigned",
             isPR |-> FALSE,
             issueNumber |-> issueNumber,
             baseBranch |-> baseBranch,
             claudeBranch |-> claudeBranch,
             assigneeTrigger |-> assigneeTrigger[1]])

\* lines 286-300: eventAction === "assigned"
AssignedCase(ctx, issueNumber, baseBranch, claudeBranch) ==
    LET assigneeTrigger == ctx.inputs.assigneeTrigger
        directPrompt == ctx.inputs.directPrompt
    IN  IF ~Truthy(assigneeTrigger) /\ ~Truthy(directPrompt)
        THEN Thrown("ASSIGNEE_TRIGGER is required for issue assigned event")
        ELSE Returned(
            [eventName |-> "issues",
             eventAction |-> "assigned",
             isPR |-> FALSE,
             issueNumber |-> issueNumber,
             baseBranch |-> baseBranch,
             claudeBranch |-> claudeBranch]
            @@ Spread("assigneeTrigger", assigneeTrigger))

\* lines 301-313: eventAction === "labeled"
LabeledCase(ctx, issueNumber, baseBranch, claudeBranch) ==
    LET labelTrigger == ctx.inputs.labelTrigger
    IN  IF ~Truthy(labelTrigger)
        THEN Thrown("LABEL_TRIGGER is required for issue labeled event")
        ELSE Returned(
            [eventName |-> "issues",
             eventAction |-> "labeled",
             isPR |-> FALSE,
             issueNumber |-> issueNumber,
             baseBranch |-> baseBranch,
             claudeBranch |-> claudeBranch,
             labelTrigger |-> labelTrigger[1]])

\* lines 314-322: eventAction === "opened"
OpenedCase(ctx, issueNumber, baseBranch, claudeBranch) ==
    Returned(
        [eventName |-> "issues",
         eventAction |-> "opened",
         isPR |-> FALSE,
         issueNumber |-> issueNumber,
         baseBranch |-> baseBranch,
         claudeBranch |-> claudeBranch])

\* Variant: an unknown sub-action is reported as a missing action field
UnsupportedActionCase_asMissing(eventAction) ==
    Thrown("GITHUB_EVENT_ACTION is required for issues event")

\* lines 323-325: any other sub-action
UnsupportedActionCase(eventAction) ==
    Thrown("Unsupported issue action: " \o eventAction)

\* lines 269-326
IssuesCase(ctx, baseBranch, claudeBranch) ==
    LET issueNumber == issueNumberOf(ctx)
        eventAction == ctx.eventAction
    IN  IF ~Truthy(eventAction)
        THEN Thrown("GITHUB_EVENT_ACTION is required for issues event")
        ELSE IF ~Truthy(issueNumber)
        THEN Thrown("ISSUE_NUMBER is required for issues event")
        ELSE IF ctx.isPR
        THEN Thrown("IS_PR must be false for issues event")
        ELSE IF ~Truthy(baseBranch)
        THEN Thrown("BASE_BRANCH is required for issues event")
        ELSE IF ~Truthy(claudeBranch)
        THEN Thrown("CLAUDE_BRANCH is required for issues event")
        ELSE IF eventAction[1] = "assigned"
        THEN AssignedCase(ctx, issueNumber[1], baseBranch[1], claudeBranch[1])
        ELSE IF eventAction[1] = "labeled"
        THEN LabeledCase(ctx, issueNumber[1], baseBranch[1], claudeBranch[1])
        ELSE IF eventAction[1] = "opened"
        THEN OpenedCase(ctx, issueNumber[1], baseBranch[1], claudeBranch[1])
        ELSE UnsupportedActionCase(eventAction[1])

\* Variant: the action name is validated and normalised to "opened" when absent
PullRequestCase_defaulting(ctx, baseBranch, claudeBranch) ==
    LET prNumber == prNumberOf(ctx)
    IN  IF ~Truthy(prNumber)
        THEN Thrown("PR_NUMBER is required for pull_request event")
        ELSE Returned(
            [eventName |-> "pull_request",
             eventAction |-> IF Truthy(ctx.eventAction)
                             THEN ctx.eventAction ELSE Some("opened"),
             isPR |-> TRUE,
             prNumber |-> prNumber[1]]
            @@ Spread("claudeBranch", claudeBranch)
            @@ Spread("baseBranch", baseBranch))

\* lines 328-343
PullRequestCase(ctx, baseBranch, claudeBranch) ==
    LET prNumber == prNumberOf(ctx)
    IN  IF ~Truthy(prNumber)
        THEN Thrown("PR_NUMBER is required for pull_request event")
        ELSE IF ~ctx.isPR
        THEN Thrown("IS_PR must be true for pull_request event")
        ELSE Returned(
            [eventName |-> "pull_request",
             eventAction |-> ctx.eventAction,
             isPR |-> TRUE,
             prNumber |-> prNumber[1]]
            @@ Spread("claudeBranch", claudeBranch)
            @@ Spread("baseBranch", baseBranch))

\* Variant: the default case builds a bare descriptor instead of throwing
UnsupportedEventCase_silent(eventName) ==
    Returned([eventName |-> eventName])

\* lines 345-347: the default case of the switch
UnsupportedEventCase(eventName) ==
    Thrown("Unsupported event type: " \o eventName)

\* lines 174-347: the switch on eventName
eventDataOf(ctx, baseBranch, claudeBranch) ==
    CASE ctx.eventName = "pull_request_review_comment" ->
            ReviewCommentCase(ctx, baseBranch, claudeBranch)
      [] ctx.eventName = "pull_request_review" ->
            ReviewCase(ctx, baseBranch, claudeBranch)
      [] ctx.eventName = "issue_comment" ->
            IssueCommentCase(ctx, baseBranch, claudeBranch)
      [] ctx.eventName = "issues" ->
            IssuesCase(ctx, baseBranch, claudeBranch)
      [] ctx.eventName = "pull_request" ->
            PullRequestCase(ctx, baseBranch, claudeBranch)
      [] OTHER -> UnsupportedEventCase(ctx.eventName)

\* lines 114-353
prepareContext(ctx, commentIdArg, baseBranch, claudeBranch) ==
    LET eventData == eventDataOf(ctx, baseBranch, claudeBranch)
    IN  IF eventData.returned
        THEN Returned(commonFieldsOf(ctx, commentIdArg, claudeBranch)
                      @@ [eventData |-> eventData.value])
        ELSE eventData


----------------------------------------------------------------------------
(* String operations of the JavaScript runtime *)

UpperCaseLetters == "ABCDEFGHIJKLMNOPQRSTUVWXYZ"
LowerCaseLetters == "abcdefghijklmnopqrstuvwxyz"

\* toLowerCase of a one-character string
LowerChar(c) ==
    IF \E i \in 1..Len(UpperCaseLetters) : SubSeq(UpperCaseLetters, i, i) = c
    THEN LET i == CHOOSE j \in 1..Len(UpperCaseLetters) :
                      SubSeq(UpperCaseLetters, j, j) = c
         IN  SubSeq(LowerCaseLetters, i, i)
    ELSE c

\* String.prototype.toLowerCase()
RECURSIVE toLowerCase(_)
toLowerCase(str) ==
    IF str = "" THEN ""
    ELSE LowerChar(SubSeq(str, 1, 1)) \o toLowerCase(SubSeq(str, 2, Len(str)))

\* String.prototype.substring(0, n)
substring0(str, n) == SubSeq(str, 1, IF Len(str) < n THEN Len(str) ELSE n)

\* String(n).padStart(2, "0")
padStart2(n) == IF Len(ToString(n)) < 2 THEN "0" \o ToString(n) ELSE ToString(n)

WhiteSpace == {" ", "\n", "\t"}

RECURSIVE trimStart(_)
trimStart(str) ==
    IF str # "" /\ SubSeq(str, 1, 1) \in WhiteSpace
    THEN trimStart(SubSeq(str, 2, Len(str))) ELSE str

RECURSIVE trimEnd(_)
trimEnd(str) ==
    IF str # "" /\ SubSeq(str, Len(str), Len(str)) \in WhiteSpace
    THEN trimEnd(SubSeq(str, 1, Len(str) - 1)) ELSE str

\* String.prototype.trim()
trim(str) == trimEnd(trimStart(str))

\* Array.prototype.includes
includes(list, x) == \E i \in 1..Len(list) : list[i] = x

Max(a, b) == IF a > b THEN a ELSE b

----------------------------------------------------------------------------
(* The hosting API as the two functions use it *)

\* repos.listBranches({per_page}) answers one page: the first per_page
\* branches of the repository
per_page == 100

listBranches(repo) ==
    SubSeq(repo.branches, 1,
           IF Len(repo.branches) < per_page THEN Len(repo.branches) ELSE per_page)

\* the commit a branch of the remote points to
ShaOf(name) == "sha-" \o name

\* git.getRef({ref: "heads/<name>"}) resolves exactly for a branch of the remote
refExists(repo, name) == includes(repo.branches, name)

----------------------------------------------------------------------------
(* setupBranch: src/unnamed/part_000 *)

SBIdle ==
    [pc |-> "idle", sourceBranch |-> None, newBranch |-> None,
     currentSHA |-> None, result |-> None, exitCode |-> None]

SBEntry == [SBIdle EXCEPT !.pc = "entry"]

\* Variant: the fetch depth is the floor, whatever the commit count
fetchDepthOf_floorOnly(commitCount) == 20

\* line 50
fetchDepthOf(commitCount) == Max(commitCount, 20)

\* Variant: only a CLOSED pull request leaves the checkout path
IsOpenPR_mergedAsOpen ==
    /\ context.isPR
    /\ githubData.contextData.state # "CLOSED"

\* lines 32-42: the pull request is open (neither CLOSED nor MERGED)
IsOpenPR ==
    /\ context.isPR
    /\ githubData.contextData.state \notin {"CLOSED", "MERGED"}

GitRun(cmd) == [git EXCEPT !.log = Append(@, cmd)]

\* Variant: an open pull request gets a new branch from its base, like a
\* closed one
SB_FetchPRBranch_branching ==
    /\ sb.pc = "entry"
    /\ IsOpenPR
    /\ sb' = [sb EXCEPT !.pc = "name",
                        !.sourceBranch = Some(githubData.contextData.baseRefName)]
    /\ UNCHANGED <<githubData, remote, env, advisor, now, git, outputs, ai>>
    /\ UNCHANGED <<pcVars, runVars>>

\* lines 43-57: open pull request, `git fetch origin --depth=N <head ref>`.
\* The command fails when origin has no such branch; the failure is raised
\* outside the try block and rejects the call.
SB_FetchPRBranch ==
    /\ sb.pc = "entry"
    /\ IsOpenPR
    /\ LET prData == githubData.contextData
           branchName == prData.headRefName
           fetchDepth == fetchDepthOf(prData.commits.totalCount)
           cmd == [cmd |-> "fetch", ref |-> branchName, depth |-> fetchDepth]
       IN  IF refExists(remote, branchName)
           THEN /\ git' = [GitRun(cmd) EXCEPT
                             !.origin = [b \in {branchName} |-> ShaOf(branchName)] @@ @]
                /\ sb' = [sb EXCEPT !.pc = "checkout"]
           ELSE /\ git' = GitRun(cmd)
                /\ sb' = [sb EXCEPT !.pc = "rejected"]
    /\ UNCHANGED <<githubData, remote, env, advisor, now, outputs, ai>>
    /\ UNCHANGED <<pcVars, runVars>>

\* Variant: the pull request's head branch is also reported as claudeBranch
SB_CheckoutPRBranch_named ==
    /\ sb.pc = "checkout"
    /\ LET prData == githubData.contextData
           branchName == prData.headRefName
           cmd == [cmd |-> "checkout", ref |-> branchName]
       IN  /\ git' = [GitRun(cmd) EXCEPT
                        !.head = branchName,
                        !.heads = @ @@ [b \in {branchName} |-> git.origin[branchName]]]
           /\ sb' = [sb EXCEPT
                        !.pc = "returned",
                        !.result = Some([baseBranch |-> prData.baseRefName,
                                         claudeBranch |-> branchName,
                                         currentBranch |-> branchName])]
    /\ UNCHANGED <<githubData, remote, env, advisor, now, outputs, ai>>
    /\ UNCHANGED <<pcVars, runVars>>

\* lines 58-68: `git checkout <head ref>` and the open-PR record
SB_CheckoutPRBranch ==
    /\ sb.pc = "checkout"
    /\ LET prData == githubData.contextData
           branchName == prData.headRefName
           cmd == [cmd |-> "checkout", ref |-> branchName]
       IN  /\ git' = [GitRun(cmd) EXCEPT
                        !.head = branchName,
                        !.heads = @ @@ [b \in {branchName} |-> git.origin[branchName]]]
           /\ sb' = [sb EXCEPT
                        !.pc = "returned",
                        !.result = Some([baseBranch |-> prData.baseRefName,
                                         currentBranch |-> branchName])]
    /\ UNCHANGED <<githubData, remote, env, advisor, now, outputs, ai>>
    /\ UNCHANGED <<pcVars, runVars>>

\* Variant: the prompt is looked at before the configured base branch
sourceBranchRule_promptFirst(ctx) ==
    IF Truthy(ctx.inputs.baseBranchPrompt) THEN "prompt"
    ELSE IF Truthy(ctx.inputs.baseBranch) THEN "provided"
    ELSE "default"

\* lines 72-103: which of the three rules gives the source branch
sourceBranchRule(ctx) ==
    IF Truthy(ctx.inputs.baseBranch) THEN "provided"
    ELSE IF Truthy(ctx.inputs.baseBranchPrompt) THEN "prompt"
    ELSE "default"

\* lines 78-81: a base branch is configured
SB_UseProvidedBase ==
    /\ sb.pc = "entry"
    /\ ~IsOpenPR
    /\ sourceBranchRule(context) = "provided"
    /\ sb' = [sb EXCEPT !.pc = "name",
                        !.sourceBranch = Some(context.inputs.baseBranch[1])]
    /\ UNCHANGED <<githubData, remote, env, advisor, now, git, outputs, ai>>
    /\ UNCHANGED <<pcVars, runVars>>

\* lines 82-94: a prompt is configured; the code logs that AI branch
\* determination is not implemented and asks repos.get for the default
\* branch.  A failing request rejects the call.
SB_PromptFallsBackToDefault ==
    /\ sb.pc = "entry"
    /\ ~IsOpenPR
    /\ sourceBranchRule(context) = "prompt"
    /\ \E ok \in BOOLEAN :
         sb' = IF ok
               THEN [sb EXCEPT !.pc = "name",
                               !.sourceBranch = Some(remote.default_branch)]
               ELSE [sb EXCEPT !.pc = "rejected"]
    /\ UNCHANGED <<githubData, remote, env, advisor, now, git, outputs, ai>>
    /\ UNCHANGED <<pcVars, runVars>>

\* lines 95-103: neither is configured; repos.get gives the default branch
SB_UseDefaultBranch ==
    /\ sb.pc = "entry"
    /\ ~IsOpenPR
    /\ sourceBranchRule(context) = "default"
    /\ \E ok \in BOOLEAN :
         sb' = IF ok
               THEN [sb EXCEPT !.pc = "name",
                               !.sourceBranch = Some(remote.default_branch)]
               ELSE [sb EXCEPT !.pc = "rejected"]
    /\ UNCHANGED <<githubData, remote, env, advisor, now, git, outputs, ai>>
    /\ UNCHANGED <<pcVars, runVars>>

\* line 119: YYYYMMDD-HHMM of the local clock
timestampOf(date) ==
    ToString(date.year) \o padStart2(date.month + 1) \o padStart2(date.date)
    \o "-" \o padStart2(date.hours) \o padStart2(date.minutes)

\* lines 105-126
branchNameOf(ctx, date) ==
    LET entityType == IF ctx.isPR THEN "pr" ELSE "issue"
    IN  IF ctx.inputs.useTimestampSuffix
        THEN ctx.inputs.branchPrefix \o entityType \o "-"
             \o ToString(ctx.entityNumber) \o "-" \o timestampOf(date)
        ELSE ctx.inputs.branchPrefix \o entityType \o "-"
             \o ToString(ctx.entityNumber)

\* Variant: the name is cut but not lower-cased
newBranchOf_noLowerCase(branchName) == substring0(branchName, 50)

\* line 133
newBranchOf(branchName) == substring0(toLowerCase(branchName), 50)

\* lines 105-133: the name of the branch to create
SB_GenerateBranchName ==
    /\ sb.pc = "name"
    /\ sb' = [sb EXCEPT !.pc = "getRef",
                        !.newBranch = Some(newBranchOf(branchNameOf(context, now)))]
    /\ UNCHANGED <<githubData, remote, env, advisor, now, git, outputs, ai>>
    /\ UNCHANGED <<pcVars, runVars>>

\* Variant: the reference is taken without checking that it exists
SB_GetSourceRef_unverified ==
    /\ sb.pc = "getRef"
    /\ \E ok \in BOOLEAN :
         sb' = IF ok
               THEN [sb EXCEPT !.pc = "create",
                               !.currentSHA = Some(ShaOf(sb.sourceBranch[1]))]
               ELSE [sb EXCEPT !.pc = "exited", !.exitCode = Some(1)]
    /\ UNCHANGED <<githubData, remote, env, advisor, now, git, outputs, ai>>
    /\ UNCHANGED <<pcVars, runVars>>

\* lines 135-144, 182-185: git.getRef of heads/<sourceBranch>; when the
\* request fails the catch block ends the process with exit code 1
SB_GetSourceRef ==
    /\ sb.pc = "getRef"
    /\ \E ok \in BOOLEAN :
         sb' = IF ok /\ refExists(remote, sb.sourceBranch[1])
               THEN [sb EXCEPT !.pc = "create",
                               !.currentSHA = Some(ShaOf(sb.sourceBranch[1]))]
               ELSE [sb EXCEPT !.pc = "exited", !.exitCode = Some(1)]
    /\ UNCHANGED <<githubData, remote, env, advisor, now, git, outputs, ai>>
    /\ UNCHANGED <<pcVars, runVars>>

\* core.setOutput(name, value)
setOutput(outs, name, value) == [n \in {name} |-> value] @@ outs

\* Variant: commit signing, but the branch is also created locally
SB_DeferBranchCreation_creating ==
    /\ sb.pc = "create"
    /\ context.inputs.useCommitSigning
    /\ git' = [GitRun([cmd |-> "checkout -b", ref |-> sb.newBranch[1]]) EXCEPT
                 !.head = sb.newBranch[1],
                 !.heads = @ @@ [b \in {sb.newBranch[1]} |-> git.heads[git.head]]]
    /\ outputs' = setOutput(setOutput(outputs, "CLAUDE_BRANCH", sb.newBranch[1]),
                            "BASE_BRANCH", sb.sourceBranch[1])
    /\ sb' = [sb EXCEPT
                !.pc = "returned",
                !.result = Some([baseBranch |-> sb.sourceBranch[1],
                                 claudeBranch |-> sb.newBranch[1],
                                 currentBranch |-> sb.sourceBranch[1]])]
    /\ UNCHANGED <<githubData, remote, env, advisor, now, ai>>
    /\ UNCHANGED <<pcVars, runVars>>

\* lines 146-160: commit signing, the branch is left to the file ops server
SB_DeferBranchCreation ==
    /\ sb.pc = "create"
    /\ context.inputs.useCommitSigning
    /\ outputs' = setOutput(setOutput(outputs, "CLAUDE_BRANCH", sb.newBranch[1]),
                            "BASE_BRANCH", sb.sourceBranch[1])
    /\ sb' = [sb EXCEPT
                !.pc = "returned",
                !.result = Some([baseBranch |-> sb.sourceBranch[1],
                                 claudeBranch |-> sb.newBranch[1],
                                 currentBranch |-> sb.sourceBranch[1]])]
    /\ UNCHANGED <<githubData, remote, env, advisor, now, git, ai>>
    /\ UNCHANGED <<pcVars, runVars>>

\* Variant: the record of a locally created branch omits claudeBranch
SB_CreateLocalBranch_unnamed ==
    /\ sb.pc = "create"
    /\ ~context.inputs.useCommitSigning
    /\ LET newBranch == sb.newBranch[1]
           cmd == [cmd |-> "checkout -b", ref |-> newBranch]
       IN  IF newBranch \in DOMAIN git.heads
           THEN /\ git' = GitRun(cmd)
                /\ outputs' = outputs
                /\ sb' = [sb EXCEPT !.pc = "exited", !.exitCode = Some(1)]
           ELSE /\ git' = [GitRun(cmd) EXCEPT
                             !.head = newBranch,
                             !.heads = @ @@ [b \in {newBranch} |-> git.heads[git.head]]]
                /\ outputs' = setOutput(setOutput(outputs, "CLAUDE_BRANCH", newBranch),
                                        "BASE_BRANCH", sb.sourceBranch[1])
                /\ sb' = [sb EXCEPT
                            !.pc = "returned",
                            !.result = Some([baseBranch |-> sb.sourceBranch[1],
                                             currentBranch |-> newBranch])]
    /\ UNCHANGED <<githubData, remote, env, advisor, now, ai>>
    /\ UNCHANGED <<pcVars, runVars>>

\* lines 162-181, 182-185: `git checkout -b <newBranch>` creates the branch
\* at the commit that is checked out; when a local branch of that name
\* exists the command fails and the catch block ends the process
SB_CreateLocalBranch ==
    /\ sb.pc = "create"
    /\ ~context.inputs.useCommitSigning
    /\ LET newBranch == sb.newBranch[1]
           cmd == [cmd |-> "checkout -b", ref |-> newBranch]
       IN  IF newBranch \in DOMAIN git.heads
           THEN /\ git' = GitRun(cmd)
                /\ outputs' = outputs
                /\ sb' = [sb EXCEPT !.pc = "exited", !.exitCode = Some(1)]
           ELSE /\ git' = [GitRun(cmd) EXCEPT
                             !.head = newBranch,
                             !.heads = @ @@ [b \in {newBranch} |-> git.heads[git.head]]]
                /\ outputs' = setOutput(setOutput(outputs, "CLAUDE_BRANCH", newBranch),
                                        "BASE_BRANCH", sb.sourceBranch[1])
                /\ sb' = [sb EXCEPT
                            !.pc = "returned",
                            !.result = Some([baseBranch |-> sb.sourceBranch[1],
                                             claudeBranch |-> newBranch,
                                             currentBranch |-> newBranch])]
    /\ UNCHANGED <<githubData, remote, env, advisor, now, ai>>
    /\ UNCHANGED <<pcVars, runVars>>

SBNext ==
    \/ SB_FetchPRBranch
    \/ SB_CheckoutPRBranch
    \/ SB_UseProvidedBase
    \/ SB_PromptFallsBackToDefault
    \/ SB_UseDefaultBranch
    \/ SB_GenerateBranchName
    \/ SB_GetSourceRef
    \/ SB_DeferBranchCreation
    \/ SB_CreateLocalBranch

----------------------------------------------------------------------------
(* determineBranchWithAI: src/src/create-prompt/index.ts 848-968 *)

AIIdle ==
    [pc |-> "idle", defaultBranch |-> None, branches |-> <<>>, result |-> None]

AIEntry == [AIIdle EXCEPT !.pc = "entry"]

\* lines 856-859: neither credential is set
noAuthentication(environment) ==
    /\ ~Truthy(environment.ANTHROPIC_API_KEY)
    /\ ~Truthy(environment.CLAUDE_CODE_OAUTH_TOKEN)

\* lines 854-867: without credentials the default branch is asked for
\* (inside the try block), otherwise the client is built
AI_CheckAuthentication ==
    /\ ai.pc = "entry"
    /\ ai' = [ai EXCEPT !.pc = IF noAuthentication(env)
                               THEN "noAuthDefault" ELSE "repoGet"]
    /\ UNCHANGED <<githubData, remote, env, advisor, now, git, outputs, sb>>
    /\ UNCHANGED <<pcVars, runVars>>

\* line 861: return await getDefaultBranch(...); a failing request is
\* caught by the catch block
AI_NoAuthDefault ==
    /\ ai.pc = "noAuthDefault"
    /\ \E ok \in BOOLEAN :
         ai' = IF ok
               THEN [ai EXCEPT !.pc = "returned",
                               !.result = Some(remote.default_branch)]
               ELSE [ai EXCEPT !.pc = "catch"]
    /\ UNCHANGED <<githubData, remote, env, advisor, now, git, outputs, sb>>
    /\ UNCHANGED <<pcVars, runVars>>

\* lines 869-874, 884: repos.get
AI_GetRepository ==
    /\ ai.pc = "repoGet"
    /\ \E ok \in BOOLEAN :
         ai' = IF ok
               THEN [ai EXCEPT !.pc = "listBranches",
                               !.defaultBranch = Some(remote.default_branch)]
               ELSE [ai EXCEPT !.pc = "catch"]
    /\ UNCHANGED <<githubData, remote, env, advisor, now, git, outputs, sb>>
    /\ UNCHANGED <<pcVars, runVars>>

\* lines 876-883: repos.listBranches, one page
AI_ListBranches ==
    /\ ai.pc = "listBranches"
    /\ \E ok \in BOOLEAN :
         ai' = IF ok
               THEN [ai EXCEPT !.pc = "complete",
                               !.branches = listBranches(remote)]
               ELSE [ai EXCEPT !.pc = "catch"]
    /\ UNCHANGED <<githubData, remote, env, advisor, now, git, outputs, sb>>
    /\ UNCHANGED <<pcVars, runVars>>

\* lines 941-943: the candidate name read from the response
candidateOf(response, defaultBranch) ==
    IF response.content # <<>> /\ response.content[1].type = "text"
    THEN trim(response.content[1].text)
    ELSE defaultBranch

\* Variant: the candidate is returned without looking at the branch list
validatedBranch_unchecked(branches, branchName, defaultBranch) == branchName

\* lines 945-952: the candidate is kept only when the fetched list has it
validatedBranch(branches, branchName, defaultBranch) ==
    IF includes(branches, branchName) THEN branchName ELSE defaultBranch

\* lines 931-952: messages.create, then the validation of its answer; a
\* failing request is caught by the catch block
AI_AskAdvisor ==
    /\ ai.pc = "complete"
    /\ IF advisor.ok
       THEN ai' = [ai EXCEPT
                     !.pc = "returned",
                     !.result = Some(validatedBranch(
                                       ai.branches,
                                       candidateOf(advisor.response, ai.defaultBranch[1]),
                                       ai.defaultBranch[1]))]
       ELSE ai' = [ai EXCEPT !.pc = "catch"]
    /\ UNCHANGED <<githubData, remote, env, advisor, now, git, outputs, sb>>
    /\ UNCHANGED <<pcVars, runVars>>

\* lines 954-958: the catch block asks for the default branch again; when
\* that request fails too the error leaves the function
AI_CatchFallback ==
    /\ ai.pc = "catch"
    /\ \E ok \in BOOLEAN :
         ai' = IF ok
               THEN [ai EXCEPT !.pc = "returned",
                               !.result = Some(remote.default_branch)]
               ELSE [ai EXCEPT !.pc = "rejected"]
    /\ UNCHANGED <<githubData, remote, env, advisor, now, git, outputs, sb>>
    /\ UNCHANGED <<pcVars, runVars>>

AINext ==
    \/ AI_CheckAuthentication
    \/ AI_NoAuthDefault
    \/ AI_GetRepository
    \/ AI_ListBranches
    \/ AI_AskAdvisor
    \/ AI_CatchFallback

----------------------------------------------------------------------------
(* createPrompt: src/src/create-prompt/index.ts 25-112, 781-841 *)

\* lines 25-33
BASE_ALLOWED_TOOLS ==
    <<"Edit", "MultiEdit", "Glob", "Grep", "LS", "Read", "Write">>

\* line 34
DISALLOWED_TOOLS == <<"WebSearch", "WebFetch">>

\* lines 36-86
buildAllowedToolsString(customAllowedTools, includeActionsTools, useCommitSigning, createPullRequest) ==
    LET baseTools ==
            BASE_ALLOWED_TOOLS
            \o <<"mcp__github_comment__update_claude_comment">>
            \o (IF createPullRequest
                THEN <<"mcp__github__create_pull_request",
                       "mcp__github__update_pull_request">>
                ELSE <<>>)
            \o (IF useCommitSigning
                THEN <<"mcp__github_file_ops__commit_files",
                       "mcp__github_file_ops__delete_files">>
                ELSE <<"Bash(git add:*)", "Bash(git commit:*)", "Bash(git push:*)",
                       "Bash(git status:*)", "Bash(git diff:*)", "Bash(git log:*)",
                       "Bash(git rm:*)", "Bash(git config user.name:*)",
                       "Bash(git config user.email:*)">>)
            \o (IF includeActionsTools
                THEN <<"mcp__github_ci__get_ci_status",
                       "mcp__github_ci__get_workflow_run_details",
                       "mcp__github_ci__download_job_log">>
                ELSE <<>>)
        allAllowedTools == JoinComma(baseTools)
    IN  IF Len(customAllowedTools) > 0
        THEN allAllowedTools \o "," \o JoinComma(customAllowedTools)
        ELSE allAllowedTools

\* lines 88-112
buildDisallowedToolsString(customDisallowedTools, allowedTools) ==
    LET disallowedTools ==
            IF Len(allowedTools) > 0
            THEN SelectSeq(DISALLOWED_TOOLS, LAMBDA tool : ~includes(allowedTools, tool))
            ELSE DISALLOWED_TOOLS
        allDisallowedTools == JoinComma(disallowedTools)
    IN  IF Len(customDisallowedTools) > 0
        THEN IF allDisallowedTools # ""
             THEN allDisallowedTools \o "," \o JoinComma(customDisallowedTools)
             ELSE JoinComma(customDisallowedTools)
        ELSE allDisallowedTools

\* lines 821-823: additionalPermissions.get("actions") === "read" && isPR
hasActionsReadPermission(ctx) ==
    /\ "actions" \in DOMAIN ctx.inputs.additionalPermissions
    /\ ctx.inputs.additionalPermissions["actions"] = "read"
    /\ ctx.isPR

\* lines 801-807: the prompt text is a function of these arguments; the
\* text itself is not spelled out
generatePrompt(preparedContext, data, useCommitSigning, createPullRequest) ==
    [preparedContext |-> preparedContext,
     githubData |-> data,
     useCommitSigning |-> useCommitSigning,
     createPullRequest |-> createPullRequest]

NoExports == <<>>

CPIdle ==
    [pc |-> "idle", promptFile |-> None, exported |-> NoExports,
     failed |-> None, exitCode |-> None, error |-> None]

CPEntry == [CPIdle EXCEPT !.pc = "entry"]

\* `${error}` of an Error object
ErrorToString(msg) == "Error: " \o msg

\* Variant: a failure of prepareContext is ignored and the run goes on
CP_PrepareContext_swallowing ==
    /\ cp.pc = "entry"
    /\ prepared' = prepareContext(context, claudeCommentId, baseBranchArg, claudeBranchArg)
    /\ cp' = [cp EXCEPT !.pc = "mkdir"]
    /\ UNCHANGED <<context, claudeCommentId, baseBranchArg, claudeBranchArg>>
    /\ UNCHANGED <<branchVars, session>>

\* lines 788-794: prepareContext inside the try block
CP_PrepareContext ==
    /\ cp.pc = "entry"
    /\ prepared' = prepareContext(context, claudeCommentId, baseBranchArg, claudeBranchArg)
    /\ cp' = IF prepared'.returned
             THEN [cp EXCEPT !.pc = "mkdir"]
             ELSE [cp EXCEPT !.pc = "catch",
                             !.error = Some(ErrorToString(prepared'.error))]
    /\ UNCHANGED <<context, claudeCommentId, baseBranchArg, claudeBranchArg>>
    /\ UNCHANGED <<branchVars, session>>

\* lines 796-798: mkdir of the prompt directory; the file system may refuse
CP_Mkdir ==
    /\ cp.pc = "mkdir"
    /\ \E ok \in BOOLEAN :
         cp' = IF ok
               THEN [cp EXCEPT !.pc = "write"]
               ELSE [cp EXCEPT !.pc = "catch",
                               !.error = Some(ErrorToString("EACCES: permission denied, mkdir"))]
    /\ UNCHANGED <<pcVars, branchVars, session>>

\* lines 800-818: generatePrompt and writeFile of claude-prompt.txt
CP_WritePrompt ==
    /\ cp.pc = "write"
    /\ \E ok \in BOOLEAN :
         cp' = IF ok
               THEN [cp EXCEPT
                       !.pc = "exportAllowed",
                       !.promptFile =
                          Some(generatePrompt(prepared.value, githubData,
                                              context.inputs.useCommitSigning,
                                              context.inputs.createPullRequest))]
               ELSE [cp EXCEPT !.pc = "catch",
                               !.error = Some(ErrorToString("ENOSPC: no space left on device, write"))]
    /\ UNCHANGED <<pcVars, branchVars, session>>

\* core.exportVariable(name, value)
exportVariable(exports, name, value) == [n \in {name} |-> value] @@ exports

\* lines 820-835
CP_ExportAllowedTools ==
    /\ cp.pc = "exportAllowed"
    /\ cp' = [cp EXCEPT
                !.pc = "exportDisallowed",
                !.exported =
                   exportVariable(@, "ALLOWED_TOOLS",
                      buildAllowedToolsString(context.inputs.allowedTools,
                                              hasActionsReadPermission(context),
                                              context.inputs.useCommitSigning,
                                              context.inputs.createPullRequest))]
    /\ UNCHANGED <<pcVars, branchVars, session>>

\* lines 830-836
CP_ExportDisallowedTools ==
    /\ cp.pc = "exportDisallowed"
    /\ cp' = [cp EXCEPT
                !.pc = "done",
                !.exported =
                   exportVariable(@, "DISALLOWED_TOOLS",
                      buildDisallowedToolsString(context.inputs.disallowedTools,
                                                 context.inputs.allowedTools))]
    /\ UNCHANGED <<pcVars, branchVars, session>>

\* lines 837-840: core.setFailed and process.exit(1)
CP_Catch ==
    /\ cp.pc = "catch"
    /\ cp' = [cp EXCEPT
                !.pc = "exited",
                !.failed = Some("Create prompt failed with error: " \o cp.error[1]),
                !.exitCode = Some(1)]
    /\ UNCHANGED <<pcVars, branchVars, session>>

CPNext ==
    \/ CP_PrepareContext
    \/ CP_Mkdir
    \/ CP_WritePrompt
    \/ CP_ExportAllowedTools
    \/ CP_ExportDisallowedTools
    \/ CP_Catch

----------------------------------------------------------------------------
(* Inputs of prepareContext *)

\* Event kinds handed to prepareContext: the five supported ones and two of
\* the kinds a workflow can be triggered by that the switch does not list.
EventNames == SupportedEvents \cup {"push", "workflow_dispatch"}

\* context.eventAction: absent, empty, the three issue sub-actions the code
\* dispatches on, and two it does not.
EventActions ==
    {None, Some(""), Some("assigned"), Some("labeled"), Some("opened"),
     Some("closed"), Some("synchronize")}

EntityNumbers == {0, 42}
CommentBodies == {"", "@claude please fix"}
ReviewBodies == {None, Some(""), Some("@claude review")}   \* review.body may be null
BranchArgs == {None, Some("main")}
ClaudeBranchArgs == {None, Some("claude/issue-42")}
TriggerInputs == {None, Some("claude-bot")}

DefaultInputs ==
    [triggerPhrase |-> None,
     assigneeTrigger |-> None,
     labelTrigger |-> None,
     customInstructions |-> None,
     allowedTools |-> <<>>,
     disallowedTools |-> <<"Bash">>,
     directPrompt |-> None,
     baseBranch |-> None,
     baseBranchPrompt |-> None,
     branchPrefix |-> "claude/",
     useTimestampSuffix |-> FALSE,
     useCommitSigning |-> FALSE,
     createPullRequest |-> FALSE,
     additionalPermissions |-> <<>>]

User == [login |-> "octocat"]

\* The payload has the shape of its event kind
PayloadsOf(eventName) ==
    IF eventName \in {"issue_comment", "pull_request_review_comment"}
    THEN {[comment |-> [id |-> 7, body |-> b, user |-> User]] : b \in CommentBodies}
    ELSE IF eventName = "pull_request_review"
    THEN {[review |-> [body |-> b, user |-> User]] : b \in ReviewBodies}
    ELSE IF eventName = "issues"
    THEN {[issue |-> [user |-> User]]}
    ELSE {<<>>}

Repository == [owner |-> "acme", repo |-> "app", full_name |-> "acme/app"]

MkContext(eventName, eventAction, isPR, entityNumber, payload, inputs) ==
    [repository |-> Repository,
     eventName |-> eventName,
     eventAction |-> eventAction,
     isPR |-> isPR,
     entityNumber |-> entityNumber,
     payload |-> payload,
     inputs |-> inputs]

PCContexts ==
    UNION {
      { MkContext(en, ea, pr, n, pl,
                  [DefaultInputs EXCEPT !.assigneeTrigger = at,
                                        !.labelTrigger = lt,
                                        !.directPrompt = dp]) :
          ea \in EventActions, pr \in BOOLEAN, n \in EntityNumbers,
          pl \in PayloadsOf(en), at \in TriggerInputs,
          lt \in {None, Some("claude")}, dp \in {None, Some("fix the bug")} }
      : en \in EventNames }

NotCalled == [returned |-> FALSE, error |-> "", called |-> FALSE]

(* Inputs of setupBranch and determineBranchWithAI *)

\* Number of branches of the large repository beyond one page of listBranches
ExtraBranches == 2

\* Repositories, each with its branches in the order the API lists them.
\* The default branch is one of the branches.  The last repository has
\* more branches than one page holds.
Remotes ==
    {[branches |-> <<"develop", "main">>, default_branch |-> "main"],
     [branches |-> <<"develop", "main", "release">>, default_branch |-> "develop"],
     [branches |-> [i \in 1..per_page |-> "feature-" \o ToString(i)]
                   \o SubSeq(<<"main", "release", "staging", "trunk">>, 1, ExtraBranches),
      default_branch |-> "main"]}

NoEntity == [contextData |-> [title |-> "", body |-> ""]]

Clock0 == [year |-> 2026, month |-> 0, date |-> 9, hours |-> 7, minutes |-> 5]

GitInitial(repo) ==
    [head |-> repo.default_branch,
     heads |-> [b \in {repo.default_branch} |-> ShaOf(repo.default_branch)],
     origin |-> [b \in {repo.default_branch} |-> ShaOf(repo.default_branch)],
     log |-> <<>>]

NoOutputs == <<>>

BranchIdle ==
    /\ githubData = NoEntity
    /\ remote = [branches |-> <<"main">>, default_branch |-> "main"]
    /\ env = [ANTHROPIC_API_KEY |-> None, CLAUDE_CODE_OAUTH_TOKEN |-> None]
    /\ advisor = [ok |-> FALSE]
    /\ now = Clock0
    /\ git = GitInitial(remote)
    /\ outputs = NoOutputs
    /\ sb = SBIdle
    /\ ai = AIIdle

NoSession == [run |-> 0, order |-> "none", branch |-> None, base |-> None, pr |-> "none"]

RunIdle ==
    /\ cp = CPIdle
    /\ session = NoSession

PCInit ==
    /\ context \in PCContexts
    /\ claudeCommentId = "1001"
    /\ baseBranchArg \in BranchArgs
    /\ claudeBranchArg \in ClaudeBranchArgs
    /\ prepared = NotCalled
    /\ BranchIdle
    /\ RunIdle

\* The caller invokes prepareContext once with the drawn arguments
PrepareContext ==
    /\ prepared = NotCalled
    /\ prepared' = prepareContext(context, claudeCommentId, baseBranchArg, claudeBranchArg)
    /\ UNCHANGED <<context, claudeCommentId, baseBranchArg, claudeBranchArg>>
    /\ UNCHANGED <<branchVars, runVars>>

PCNext == PrepareContext

SpecPC == PCInit /\ [][PCNext]_vars

PCCalled == prepared # NotCalled
PCFailed == PCCalled /\ ~prepared.returned
PCReturned == PCCalled /\ prepared.returned

----------------------------------------------------------------------------
(* Runs of setupBranch and of determineBranchWithAI *)

IssueCommentPayload ==
    [comment |-> [id |-> 7, body |-> "@claude please fix", user |-> User]]

\* The entity snapshots: an issue, and pull requests in each state with
\* fewer and with more commits than the fetch depth floor.  The head ref
\* "feature-x" is on origin in no repository of Remotes (a pull request
\* from a fork), "release" and "develop" are in some.
Entities ==
    {[isPR |-> FALSE, data |-> [title |-> "Crash on start", body |-> ""]]}
    \cup
    {[isPR |-> TRUE,
      data |-> [title |-> "Fix crash", body |-> "",
                state |-> st, headRefName |-> head, baseRefName |-> "main",
                commits |-> [totalCount |-> n]]] :
       st \in {"OPEN", "CLOSED", "MERGED"}, head \in {"develop", "feature-x"},
       n \in {5, 30}}

BaseBranchInputs == {None, Some("develop"), Some("ghost")}
PromptInputs == {None, Some("Use develop for features")}
\* The default prefix, one with an upper-case letter and an underscore, and
\* one long enough for the name to pass the 50 characters
BranchPrefixes ==
    {"claude/", "Bot_X/", "Automation/Claude-Code/Generated-Branches/Ops/"}

\* Two readings of the clock, one minute apart
Clock1 == [Clock0 EXCEPT !.minutes = 6]
Clocks == {Clock0, Clock1}
BranchEntityNumbers == {7, 42}

TextAnswer(text) == [ok |-> TRUE, response |-> [content |-> <<[type |-> "text", text |-> text]>>]]

AdvisorAnswers ==
    {[ok |-> FALSE],
     [ok |-> TRUE, response |-> [content |-> <<>>]],
     [ok |-> TRUE, response |-> [content |-> <<[type |-> "tool_use"]>>]],
     TextAnswer(" develop\n"), TextAnswer("hotfix-9"), TextAnswer("main"),
     TextAnswer("")}

Environments ==
    {[ANTHROPIC_API_KEY |-> None, CLAUDE_CODE_OAUTH_TOKEN |-> None],
     [ANTHROPIC_API_KEY |-> Some("sk-ant"), CLAUDE_CODE_OAUTH_TOKEN |-> None],
     [ANTHROPIC_API_KEY |-> None, CLAUDE_CODE_OAUTH_TOKEN |-> Some("oauth")]}

BranchContext(entity, number, baseBranch, prompt, prefix, suffix, signing) ==
    MkContext("issue_comment", Some("created"), entity.isPR, number,
              IssueCommentPayload,
              [DefaultInputs EXCEPT !.baseBranch = baseBranch,
                                    !.baseBranchPrompt = prompt,
                                    !.branchPrefix = prefix,
                                    !.useTimestampSuffix = suffix,
                                    !.useCommitSigning = signing])

\* A run of setupBranch from its entry
SBInit ==
    /\ \E entity \in Entities, number \in BranchEntityNumbers,
          baseBranch \in BaseBranchInputs, prompt \in PromptInputs,
          prefix \in BranchPrefixes, suffix \in BOOLEAN, signing \in BOOLEAN :
         /\ context = BranchContext(entity, number, baseBranch, prompt,
                                    prefix, suffix, signing)
         /\ githubData = [contextData |-> entity.data]
    /\ remote \in Remotes
    /\ env = [ANTHROPIC_API_KEY |-> Some("sk-ant"), CLAUDE_CODE_OAUTH_TOKEN |-> None]
    /\ advisor \in {TextAnswer(" develop\n"), TextAnswer("hotfix-9")}
    /\ now \in Clocks
    /\ sb = SBEntry
    /\ ai = AIIdle

\* A call of determineBranchWithAI with the configured prompt
AIInit ==
    /\ \E entity \in {e \in Entities : ~e.isPR \/ e.data.state = "CLOSED"} :
         /\ context = BranchContext(entity, 42, None,
                                    Some("Use develop for features"),
                                    "claude/", FALSE, FALSE)
         /\ githubData = [contextData |-> entity.data]
    /\ remote \in Remotes
    /\ env \in Environments
    /\ advisor \in AdvisorAnswers
    /\ now = Clock0
    /\ sb = SBIdle
    /\ ai = AIEntry

BranchInit ==
    /\ claudeCommentId = "1001"
    /\ baseBranchArg = None
    /\ claudeBranchArg = None
    /\ prepared = NotCalled
    /\ outputs = NoOutputs
    /\ (SBInit \/ AIInit)
    /\ git = GitInitial(remote)
    /\ RunIdle

BranchNext == SBNext \/ AINext

SpecBranch == BranchInit /\ [][BranchNext]_vars

----------------------------------------------------------------------------
(* Properties of prepareContext, checked under SpecPC *)

\* s contains sub as a substring
Contains(s, sub) ==
    \E i \in 1..(Len(s) - Len(sub) + 1) : SubSeq(s, i, i + Len(sub) - 1) = sub

\* s starts with prefix
StartsWith(s, prefix) ==
    Len(s) >= Len(prefix) /\ SubSeq(s, 1, Len(prefix)) = prefix

\* The body text the event payload carries, read from the payload itself
PayloadBodyNonEmpty ==
    IF context.eventName \in {"issue_comment", "pull_request_review_comment"}
    THEN context.payload.comment.body # ""
    ELSE IF context.eventName = "pull_request_review"
    THEN context.payload.review.body \notin {None, Some("")}
    ELSE FALSE

IssueActions == {"assigned", "labeled", "opened"}

\* C1: for an event kind outside the five supported ones, prepareContext
\* throws "Unsupported event type: <kind>" and returns no descriptor,
\* whatever the other inputs are.
C1_UnsupportedEvent ==
    (PCCalled /\ context.eventName \notin SupportedEvents)
        => /\ ~prepared.returned
           /\ prepared.error = "Unsupported event type: " \o context.eventName

C1_Witness ==
    /\ PCFailed
    /\ context.eventName = "push"
    /\ context.isPR
    /\ baseBranchArg # None

\* C2: for a review-comment or review event, prepareContext returns a
\* descriptor exactly when isPR is true and the comment/review body is
\* non-empty; the descriptor then carries the entity number as prNumber.
C2_ReviewEvents ==
    (PCCalled /\ context.eventName \in {"pull_request_review_comment",
                                        "pull_request_review"})
        => /\ prepared.returned <=> (context.isPR /\ PayloadBodyNonEmpty)
           /\ prepared.returned =>
                /\ prepared.value.eventData.isPR
                /\ prepared.value.eventData.prNumber = ToString(context.entityNumber)

C2_Witness ==
    /\ PCReturned
    /\ context.eventName = "pull_request_review"
    /\ context.isPR
    /\ context.entityNumber = 0

\* C3: for an issue_comment event the comment id (always derivable from the
\* payload) and a non-empty body are required; on a pull request nothing
\* else is (base and working branch may be absent); on an issue the
\* working branch and the base branch are required as well, the issue
\* number being always present.
C3_IssueComment ==
    (PCCalled /\ context.eventName = "issue_comment")
        => /\ ~PayloadBodyNonEmpty =>
                /\ ~prepared.returned
                /\ prepared.error = "COMMENT_BODY is required for issue_comment event"
           /\ context.isPR => (prepared.returned <=> PayloadBodyNonEmpty)
           /\ ~context.isPR =>
                (prepared.returned <=> /\ PayloadBodyNonEmpty
                                       /\ Truthy(claudeBranchArg)
                                       /\ Truthy(baseBranchArg))
           /\ prepared.returned =>
                /\ prepared.value.eventData.commentId = ToString(context.payload.comment.id)
                /\ context.isPR =>
                     prepared.value.eventData.prNumber = ToString(context.entityNumber)
                /\ ~context.isPR =>
                     prepared.value.eventData.issueNumber = ToString(context.entityNumber)

C3_Witness ==
    /\ PCReturned
    /\ context.eventName = "issue_comment"
    /\ context.isPR
    /\ baseBranchArg = None
    /\ claudeBranchArg = None

\* The fields every issues event needs before the sub-action is looked at
IssuesCommonFieldsPresent ==
    /\ ~context.isPR
    /\ Truthy(baseBranchArg)
    /\ Truthy(claudeBranchArg)

\* C4: for an issues event whose common fields are present, the trigger
\* field required depends on the sub-action only: "assigned" fails (citing
\* ASSIGNEE_TRIGGER) exactly when neither an assignee trigger nor a direct
\* instruction is configured, "labeled" fails (citing LABEL_TRIGGER) exactly
\* when no label trigger is configured, "opened" never fails.  Conversely
\* those two errors are raised for no other reason.
C4_IssueTriggers ==
    (PCCalled /\ context.eventName = "issues")
        => /\ (IssuesCommonFieldsPresent /\ context.eventAction = Some("assigned")) =>
                /\ ~prepared.returned <=> (/\ ~Truthy(context.inputs.assigneeTrigger)
                                           /\ ~Truthy(context.inputs.directPrompt))
                /\ ~prepared.returned =>
                     prepared.error = "ASSIGNEE_TRIGGER is required for issue assigned event"
           /\ (IssuesCommonFieldsPresent /\ context.eventAction = Some("labeled")) =>
                /\ ~prepared.returned <=> ~Truthy(context.inputs.labelTrigger)
                /\ ~prepared.returned =>
                     prepared.error = "LABEL_TRIGGER is required for issue labeled event"
           /\ (IssuesCommonFieldsPresent /\ context.eventAction = Some("opened")) =>
                prepared.returned
           /\ (~prepared.returned /\ StartsWith(prepared.error, "ASSIGNEE_TRIGGER")) =>
                /\ context.eventAction = Some("assigned")
                /\ ~Truthy(context.inputs.assigneeTrigger)
                /\ ~Truthy(context.inputs.directPrompt)
           /\ (~prepared.returned /\ StartsWith(prepared.error, "LABEL_TRIGGER")) =>
                /\ context.eventAction = Some("labeled")
                /\ ~Truthy(context.inputs.labelTrigger)

C4_Witness ==
    /\ PCReturned
    /\ context.eventName = "issues"
    /\ context.eventAction = Some("assigned")
    /\ ~Truthy(context.inputs.assigneeTrigger)
    /\ Truthy(context.inputs.directPrompt)

\* C5 as stated: an issues event whose sub-action is none of assigned,
\* labeled, opened fails with the unsupported-action error whatever the
\* other inputs are.
C5_Original ==
    (/\ PCCalled
     /\ context.eventName = "issues"
     /\ context.eventAction \notin {Some(a) : a \in IssueActions})
        => /\ ~prepared.returned
           /\ StartsWith(prepared.error, "Unsupported issue action: ")

\* C5 amended: an issues event whose sub-action is none of assigned,
\* labeled, opened always fails.  The error is the unsupported-action error
\* exactly when the sub-action is a non-empty name, the entity is an issue
\* and base and working branch are both supplied; otherwise it is the
\* validation error of the first missing field, in the order sub-action,
\* issue number (isPR), base branch, working branch.
C5_UnsupportedAction ==
    (/\ PCCalled
     /\ context.eventName = "issues"
     /\ context.eventAction \notin {Some(a) : a \in IssueActions})
        => /\ ~prepared.returned
           /\ prepared.error =
                IF ~Truthy(context.eventAction)
                THEN "GITHUB_EVENT_ACTION is required for issues event"
                ELSE IF context.isPR
                THEN "ISSUE_NUMBER is required for issues event"
                ELSE IF ~Truthy(baseBranchArg)
                THEN "BASE_BRANCH is required for issues event"
                ELSE IF ~Truthy(claudeBranchArg)
                THEN "CLAUDE_BRANCH is required for issues event"
                ELSE "Unsupported issue action: " \o context.eventAction[1]

C5_Witness ==
    /\ PCFailed
    /\ context.eventName = "issues"
    /\ context.eventAction = Some("closed")
    /\ IssuesCommonFieldsPresent
    /\ prepared.error = "Unsupported issue action: closed"

\* C6: for a pull_request event prepareContext returns a descriptor exactly
\* when isPR is true (the entity number is always there), and the
\* descriptor's eventAction is the context's eventAction unchanged, absent
\* included.
C6_PullRequest ==
    (PCCalled /\ context.eventName = "pull_request")
        => /\ prepared.returned <=> context.isPR
           /\ prepared.returned =>
                /\ prepared.value.eventData.eventAction = context.eventAction
                /\ prepared.value.eventData.prNumber = ToString(context.entityNumber)

C6_Witness ==
    /\ PCReturned
    /\ context.eventName = "pull_request"
    /\ context.eventAction = None
    /\ prepared.value.eventData.eventAction = None

\* The required inputs of the event variant that the call leaves out, by
\* the name the error messages use for them
OmittedFields ==
    LET en == context.eventName
        ea == context.eventAction
    IN  {f \in {"IS_PR", "COMMENT_BODY", "CLAUDE_BRANCH", "BASE_BRANCH",
                "GITHUB_EVENT_ACTION", "ASSIGNEE_TRIGGER", "LABEL_TRIGGER"} :
           \/ /\ f = "IS_PR"
              /\ \/ en \in {"pull_request_review_comment", "pull_request_review",
                            "pull_request"} /\ ~context.isPR
                 \/ en = "issues" /\ context.isPR
           \/ /\ f = "COMMENT_BODY"
              /\ en \in {"pull_request_review_comment", "pull_request_review",
                         "issue_comment"}
              /\ ~PayloadBodyNonEmpty
           \/ /\ f = "CLAUDE_BRANCH"
              /\ \/ en = "issue_comment" /\ ~context.isPR
                 \/ en = "issues"
              /\ ~Truthy(claudeBranchArg)
           \/ /\ f = "BASE_BRANCH"
              /\ \/ en = "issue_comment" /\ ~context.isPR
                 \/ en = "issues"
              /\ ~Truthy(baseBranchArg)
           \/ /\ f = "GITHUB_EVENT_ACTION"
              /\ en = "issues"
              /\ ~Truthy(ea)
           \/ /\ f = "ASSIGNEE_TRIGGER"
              /\ en = "issues" /\ ea = Some("assigned")
              /\ ~Truthy(context.inputs.assigneeTrigger)
              /\ ~Truthy(context.inputs.directPrompt)
           \/ /\ f = "LABEL_TRIGGER"
              /\ en = "issues" /\ ea = Some("labeled")
              /\ ~Truthy(context.inputs.labelTrigger)}

\* The words by which a message refers to the event kind
KindPhrases ==
    IF context.eventName = "issues"
    THEN {"issues event", "issue assigned event", "issue labeled event"}
    ELSE {context.eventName \o " event"}

SupportedPair ==
    /\ context.eventName \in SupportedEvents
    /\ context.eventName = "issues" =>
         (~Truthy(context.eventAction) \/ context.eventAction[1] \in IssueActions)

\* C7 as stated: for a supported kind/action pair with exactly one required
\* field left out (isPR with the wrong value counting as IS_PR left out),
\* prepareContext fails and the error names that field and the event kind.
C7_Original ==
    (PCCalled /\ SupportedPair /\ Cardinality(OmittedFields) = 1)
        => /\ ~prepared.returned
           /\ \E f \in OmittedFields : StartsWith(prepared.error, f \o " ")
           /\ \E k \in KindPhrases : Contains(prepared.error, k)

----------------------------------------------------------------------------
(* Properties of base branch resolution, checked under SpecBranch *)

\* setupBranch has returned a record on the branch-creation path
SBReturnedCreated == sb.pc = "returned" /\ ~IsOpenPR

\* The name the completion API proposes, when it answers with text
AdvisorSuggestion ==
    IF advisor.ok /\ advisor.response.content # <<>>
       /\ advisor.response.content[1].type = "text"
    THEN Some(trim(advisor.response.content[1].text))
    ELSE None

\* C8: on the branch-creation path a configured base branch is the source
\* branch, and the baseBranch of the returned record, verbatim, whatever the
\* prompt and the repository default are; with neither a base branch nor a
\* prompt configured it is the repository's default branch.
C8_BasePrecedence ==
    /\ sb.sourceBranch # None =>
         /\ Truthy(context.inputs.baseBranch) =>
              sb.sourceBranch = context.inputs.baseBranch
         /\ (~Truthy(context.inputs.baseBranch)
             /\ ~Truthy(context.inputs.baseBranchPrompt)) =>
              sb.sourceBranch = Some(remote.default_branch)
    /\ SBReturnedCreated =>
         /\ Truthy(context.inputs.baseBranch) =>
              sb.result[1].baseBranch = context.inputs.baseBranch[1]
         /\ (~Truthy(context.inputs.baseBranch)
             /\ ~Truthy(context.inputs.baseBranchPrompt)) =>
              sb.result[1].baseBranch = remote.default_branch

C8_Witness ==
    /\ SBReturnedCreated
    /\ context.inputs.baseBranch = Some("develop")
    /\ Truthy(context.inputs.baseBranchPrompt)
    /\ remote.default_branch = "main"
    /\ sb.result[1].baseBranch = "develop"

\* C9 as stated: with no base branch configured and a prompt configured,
\* setupBranch calls the advisor, and a suggestion that is in the fetched
\* branch list becomes the baseBranch of the returned record.
C9_Original ==
    (/\ SBReturnedCreated
     /\ ~Truthy(context.inputs.baseBranch)
     /\ Truthy(context.inputs.baseBranchPrompt)
     /\ AdvisorSuggestion # None
     /\ includes(listBranches(remote), AdvisorSuggestion[1]))
        => sb.result[1].baseBranch = AdvisorSuggestion[1]

\* C10 as stated: the base branch that resolution produces, the source
\* branch of setupBranch and the value determineBranchWithAI returns, is in
\* the list listBranches answers or is the configured base branch.
C10_Original ==
    /\ sb.sourceBranch # None =>
         \/ includes(listBranches(remote), sb.sourceBranch[1])
         \/ sb.sourceBranch = context.inputs.baseBranch
    /\ ai.pc = "returned" =>
         \/ includes(listBranches(remote), ai.result[1])
         \/ ai.result = context.inputs.baseBranch

----------------------------------------------------------------------------
(* Properties of determineBranchWithAI, checked under SpecBranch *)

\* determineBranchWithAI has returned from the validation of the advisor's
\* answer: the branch list was fetched and messages.create answered
AdvisorAnswered ==
    /\ ai.pc = "returned"
    /\ ai.branches # <<>>
    /\ advisor.ok

\* C11 as stated: a candidate name that is not in the branch list fetched
\* earlier in the call is discarded: it is not the value returned, nothing
\* is created, and the call returns the repository default branch without
\* an error.
C11_Original ==
    (/\ AdvisorAnswered
     /\ AdvisorSuggestion # None
     /\ ~includes(ai.branches, AdvisorSuggestion[1]))
        => /\ ai.result = Some(remote.default_branch)
           /\ ai.result[1] # AdvisorSuggestion[1]
           /\ git = GitInitial(remote)
           /\ outputs = NoOutputs

\* C12 as stated: no failure inside determineBranchWithAI leaves the
\* function; every call ends with a value.
C12_Original == ai.pc # "rejected"

----------------------------------------------------------------------------
(* Properties of setupBranch, checked under SpecBranch *)

PRData == githubData.contextData

\* The commands of the local checkout that create a branch
CreatedLocally == {i \in 1..Len(git.log) : git.log[i].cmd = "checkout -b"}

\* C13: for an open pull request setupBranch runs `git fetch` of the head
\* ref with depth max(commit count, 20) and then `git checkout` of the head
\* ref; it resolves no source branch and creates no branch, whatever base
\* branch and prompt are configured, and the record it returns is
\* {baseBranch: base ref, currentBranch: head ref} with no working branch.
C13_OpenPR ==
    IsOpenPR =>
      LET fetch == [cmd |-> "fetch", ref |-> PRData.headRefName,
                    depth |-> IF PRData.commits.totalCount >= 20
                              THEN PRData.commits.totalCount ELSE 20]
          checkout == [cmd |-> "checkout", ref |-> PRData.headRefName]
      IN  /\ sb.pc \in {"entry", "checkout", "returned", "rejected"}
          /\ sb.sourceBranch = None
          /\ sb.newBranch = None
          /\ sb.pc = "entry" => git.log = <<>>
          /\ sb.pc \in {"checkout", "rejected"} => git.log = <<fetch>>
          /\ sb.pc = "returned" =>
               /\ git.log = <<fetch, checkout>>
               /\ git.head = PRData.headRefName
               /\ CreatedLocally = {}
               /\ sb.result = Some([baseBranch |-> PRData.baseRefName,
                                    currentBranch |-> PRData.headRefName])

C13_Witness ==
    /\ IsOpenPR
    /\ sb.pc = "returned"
    /\ PRData.commits.totalCount = 5
    /\ git.log[1].depth = 20
    /\ context.inputs.baseBranch = Some("ghost")
    /\ Truthy(context.inputs.baseBranchPrompt)
    /\ sb.result[1].baseBranch = "main"

IsClosedOrMergedPR ==
    /\ context.isPR
    /\ PRData.state \in {"CLOSED", "MERGED"}

\* The base branch the resolver of the creation path yields in this code:
\* the configured base branch, else the default branch of the repository
ResolvedBase ==
    IF Truthy(context.inputs.baseBranch)
    THEN context.inputs.baseBranch[1] ELSE remote.default_branch

\* C14: for a closed or merged pull request setupBranch never fetches or
\* checks out the head ref; it takes the branch-creation path, its
\* baseBranch is the resolved base branch and not the base ref of the pull
\* request, and the record it returns carries a working branch.
C14_ClosedPR ==
    IsClosedOrMergedPR =>
      /\ \A i \in 1..Len(git.log) : git.log[i].cmd \notin {"fetch", "checkout"}
      /\ sb.pc # "checkout"
      /\ sb.pc \in {"name", "getRef", "create", "returned", "exited"} =>
           sb.sourceBranch = Some(ResolvedBase)
      /\ sb.pc = "returned" =>
           /\ "claudeBranch" \in DOMAIN sb.result[1]
           /\ sb.result[1].claudeBranch = sb.newBranch[1]
           /\ sb.result[1].baseBranch = ResolvedBase

C14_Witness ==
    /\ IsClosedOrMergedPR
    /\ PRData.state = "MERGED"
    /\ sb.pc = "returned"
    /\ PRData.baseRefName = "main"
    /\ sb.result[1].baseBranch = "develop"
    /\ ~Truthy(context.inputs.baseBranch)
    /\ sb.result[1].claudeBranch = "claude/pr-7"

\* The configured prefixes in lower case, written out
LowerCasedPrefix ==
    CASE context.inputs.branchPrefix = "claude/" -> "claude/"
      [] context.inputs.branchPrefix = "Bot_X/" -> "bot_x/"
      [] context.inputs.branchPrefix = "Automation/Claude-Code/Generated-Branches/Ops/" ->
            "automation/claude-code/generated-branches/ops/"

\* prefix + kind + "-" + number in lower case
PlainName ==
    LowerCasedPrefix \o (IF context.isPR THEN "pr" ELSE "issue") \o "-"
    \o ToString(context.entityNumber)

\* C15: with the timestamp suffix disabled the working branch name is the
\* lower-cased prefix + kind + "-" + entity number, cut to 50 characters,
\* with kind "issue" for an issue and "pr" for a closed or merged pull
\* request; it depends on nothing else (clock, repository, other inputs),
\* so two runs with the same prefix and entity produce the same name.
C15_PlainBranchName ==
    (~context.inputs.useTimestampSuffix /\ sb.newBranch # None) =>
       /\ sb.newBranch[1] =
            IF Len(PlainName) > 50 THEN SubSeq(PlainName, 1, 50) ELSE PlainName
       /\ sb.pc = "returned" => sb.result[1].claudeBranch = sb.newBranch[1]

C15_Witness ==
    /\ ~context.inputs.useTimestampSuffix
    /\ sb.pc = "returned"
    /\ now = Clock1
    /\ ~context.isPR
    /\ context.entityNumber = 42
    /\ Len(PlainName) = 54
    /\ sb.result[1].claudeBranch = "automation/claude-code/generated-branches/ops/issu"

C15_WitnessPR ==
    /\ ~context.inputs.useTimestampSuffix
    /\ IsClosedOrMergedPR
    /\ sb.pc = "returned"
    /\ sb.result[1].claudeBranch = "bot_x/pr-7"

\* Lower-case letters, digits and the hyphen
NameChars ==
    {"a", "b", "c", "d", "e", "f", "g", "h", "i", "j", "k", "l", "m",
     "n", "o", "p", "q", "r", "s", "t", "u", "v", "w", "x", "y", "z",
     "0", "1", "2", "3", "4", "5", "6", "7", "8", "9", "-"}

\* C16: for every prefix, kind, number and timestamp setting the working
\* branch name is lower case, holds only letters, digits and hyphens (no
\* underscore) and is at most 50 characters long.
C16_Original ==
    sb.newBranch # None =>
       /\ Len(sb.newBranch[1]) <= 50
       /\ \A i \in 1..Len(sb.newBranch[1]) :
             SubSeq(sb.newBranch[1], i, i) \in NameChars

\* A run that went down the branch-creation path and returned
ReturnedFromCreation == sb.pc = "returned" /\ ~IsOpenPR

\* C17: on the branch-creation path, with commit signing nothing is
\* created or checked out locally, CLAUDE_BRANCH and BASE_BRANCH are
\* emitted, and the record has currentBranch = baseBranch and the new name
\* as working branch; without commit signing the new branch is created
\* and checked out locally and the record has currentBranch =
\* claudeBranch = the new name.
C17_CreationMode ==
    ReturnedFromCreation =>
       LET r == sb.result[1]
           name == sb.newBranch[1]
       IN  /\ r.claudeBranch = name
           /\ r.baseBranch = sb.sourceBranch[1]
           /\ IF context.inputs.useCommitSigning
              THEN /\ git = GitInitial(remote)
                   /\ name \notin DOMAIN git.heads
                   /\ DOMAIN outputs = {"CLAUDE_BRANCH", "BASE_BRANCH"}
                   /\ outputs["CLAUDE_BRANCH"] = name
                   /\ outputs["BASE_BRANCH"] = r.baseBranch
                   /\ r.currentBranch = r.baseBranch
              ELSE /\ git.log = <<[cmd |-> "checkout -b", ref |-> name]>>
                   /\ git.head = name
                   /\ name \in DOMAIN git.heads
                   /\ r.currentBranch = name

C17_Witness ==
    /\ ReturnedFromCreation
    /\ context.inputs.useCommitSigning
    /\ sb.result[1] = [baseBranch |-> "develop", claudeBranch |-> "claude/issue-7",
                       currentBranch |-> "develop"]
    /\ outputs["CLAUDE_BRANCH"] = "claude/issue-7"
    /\ git.log = <<>>

C17_WitnessLocal ==
    /\ ReturnedFromCreation
    /\ ~context.inputs.useCommitSigning
    /\ sb.result[1] = [baseBranch |-> "main", claudeBranch |-> "claude/issue-7",
                       currentBranch |-> "claude/issue-7"]
    /\ git.head = "claude/issue-7"

\* The resolved source branch is not a branch of the remote
SourceBranchMissing ==
    sb.sourceBranch # None /\ ~refExists(remote, sb.sourceBranch[1])

\* C18: when the resolved source branch does not exist on the remote the
\* run never gets past getRef: it ends with exit code 1, returns no
\* record, creates no local branch and emits no output.
C18_MissingSourceRef ==
    SourceBranchMissing =>
       /\ sb.pc \in {"name", "getRef", "exited"}
       /\ sb.pc = "exited" => sb.exitCode = Some(1)
       /\ sb.currentSHA = None
       /\ sb.result = None
       /\ CreatedLocally = {}
       /\ git = GitInitial(remote)
       /\ outputs = NoOutputs

C18_Witness ==
    /\ SourceBranchMissing
    /\ sb.sourceBranch = Some("ghost")
    /\ sb.newBranch = Some("claude/issue-7")
    /\ sb.pc = "exited"
    /\ sb.exitCode = Some(1)

\* The returned record has no claudeBranch field
WorkingBranchAbsent == "claudeBranch" \notin DOMAIN sb.result[1]

\* C19: a returned record lacks claudeBranch only when the run worked on
\* the head branch of an open pull request and created no branch; every
\* record returned for an issue or a closed or merged pull request has one.
C19_WorkingBranchPresence ==
    sb.pc = "returned" =>
       /\ WorkingBranchAbsent <=> IsOpenPR
       /\ WorkingBranchAbsent =>
             /\ CreatedLocally = {}
             /\ sb.newBranch = None
             /\ git.head = PRData.headRefName
             /\ sb.result[1].currentBranch = PRData.headRefName
       /\ ~WorkingBranchAbsent => sb.result[1].claudeBranch = sb.newBranch[1]

C19_Witness ==
    /\ sb.pc = "returned"
    /\ WorkingBranchAbsent
    /\ context.isPR
    /\ PRData.state = "OPEN"
    /\ Len(git.log) = 2

C19_WitnessPresent ==
    /\ sb.pc = "returned"
    /\ IsClosedOrMergedPR
    /\ PRData.state = "CLOSED"
    /\ sb.result[1].claudeBranch = "claude/pr-42"

\* The branch a deferred (commit-signing) run leaves to be created
AboutToBeCreated ==
    IF ReturnedFromCreation /\ context.inputs.useCommitSigning
    THEN {sb.result[1].claudeBranch}
    ELSE {}

\* C20: in every returned record currentBranch is the branch checked out
\* in the working directory or a branch about to be created, on the
\* open-PR, local-creation and commit-signing paths, also when an explicit
\* base branch differs from the branch checked out at the start.
C20_Original ==
    sb.pc = "returned" =>
       \/ sb.result[1].currentBranch = git.head
       \/ sb.result[1].currentBranch \in AboutToBeCreated

\* C21: every run that returns a record has emitted BASE_BRANCH with the
\* record's baseBranch, and has emitted CLAUDE_BRANCH exactly when the
\* record has a working branch, with the same value.
C21_Original ==
    sb.pc = "returned" =>
       /\ "BASE_BRANCH" \in DOMAIN outputs
       /\ outputs["BASE_BRANCH"] = sb.result[1].baseBranch
       /\ "CLAUDE_BRANCH" \in DOMAIN outputs <=> ~WorkingBranchAbsent
       /\ ~WorkingBranchAbsent =>
             outputs["CLAUDE_BRANCH"] = sb.result[1].claudeBranch

\* The name a run of the same inputs produces when it starts at `date`
NameProducedAt(date) == newBranchOf(branchNameOf(context, date))

\* C23: with the timestamp suffix enabled, a run on the same entity with
\* the same prefix that starts in another clock minute produces a
\* different working branch name, for every prefix and entity number.
C23_Original ==
    (context.inputs.useTimestampSuffix /\ sb.newBranch # None) =>
       \A other \in Clocks :
          other.minutes # now.minutes => NameProducedAt(other) # sb.newBranch[1]

\* C25: a working branch created locally starts at the commit of the
\* record's baseBranch, whatever was checked out at the start and
\* wherever the base came from.
C25_Original ==
    (ReturnedFromCreation /\ ~context.inputs.useCommitSigning) =>
       git.heads[sb.result[1].claudeBranch] = ShaOf(sb.result[1].baseBranch)

----------------------------------------------------------------------------
(* Successive runs on one issue and on the pull request opened from it *)

\* Number of runs triggered in one session
MaxRuns == 3

\* The events an issue triggers a run with: a comment, the opening of the
\* issue, and a sub-action prepareContext does not handle
IssueTriggers ==
    {[eventName |-> "issue_comment", eventAction |-> Some("created"),
      payload |-> IssueCommentPayload],
     [eventName |-> "issues", eventAction |-> Some("opened"),
      payload |-> [issue |-> [user |-> User]]],
     [eventName |-> "issues", eventAction |-> Some("closed"),
      payload |-> [issue |-> [user |-> User]]]}

RunPrefixes == {"claude/", "Automation/Claude-Code/Generated-Branches/Ops/"}

\* The first run of a session is triggered on an issue.  The entry point
\* calls setupBranch and then createPrompt with the record's branches; the
\* other order, createPrompt before any record exists, is the second case.
RunsInit ==
    /\ \E trigger \in IssueTriggers, baseBranch \in BaseBranchInputs,
          prompt \in PromptInputs, prefix \in RunPrefixes,
          suffix \in BOOLEAN, signing \in BOOLEAN :
         context = MkContext(trigger.eventName, trigger.eventAction, FALSE, 7,
                             trigger.payload,
                             [DefaultInputs EXCEPT !.baseBranch = baseBranch,
                                                   !.baseBranchPrompt = prompt,
                                                   !.branchPrefix = prefix,
                                                   !.useTimestampSuffix = suffix,
                                                   !.useCommitSigning = signing])
    /\ githubData = [contextData |-> [title |-> "Crash on start", body |-> ""]]
    /\ claudeCommentId = "1001"
    /\ baseBranchArg = None
    /\ claudeBranchArg = None
    /\ prepared = NotCalled
    /\ remote \in Remotes
    /\ env = [ANTHROPIC_API_KEY |-> Some("sk-ant"), CLAUDE_CODE_OAUTH_TOKEN |-> None]
    /\ advisor = TextAnswer(" develop\n")
    /\ now \in Clocks
    /\ git = GitInitial(remote)
    /\ outputs = NoOutputs
    /\ ai = AIIdle
    /\ \E order \in {"branchFirst", "promptFirst"} :
         /\ session = [NoSession EXCEPT !.run = 1, !.order = order]
         /\ sb = IF order = "branchFirst" THEN SBEntry ELSE SBIdle
         /\ cp = IF order = "branchFirst" THEN CPIdle ELSE CPEntry

\* The entry point hands the record's baseBranch and claudeBranch to
\* createPrompt
CallCreatePrompt ==
    /\ sb.pc = "returned"
    /\ cp.pc = "idle"
    /\ baseBranchArg' = Some(sb.result[1].baseBranch)
    /\ claudeBranchArg' = IF "claudeBranch" \in DOMAIN sb.result[1]
                          THEN Some(sb.result[1].claudeBranch)
                          ELSE None
    /\ cp' = CPEntry
    /\ UNCHANGED <<context, claudeCommentId, prepared, branchVars, session>>

\* The run is over: the prompt stage finished or the process ended
RunOver ==
    \/ cp.pc \in {"done", "exited"}
    \/ sb.pc \in {"exited", "rejected"}

\* After a completed run on the issue, its working branch is on the remote
\* and a pull request is opened with that branch as head
OpenPullRequest ==
    /\ session.pr = "none"
    /\ ~context.isPR
    /\ sb.pc = "returned"
    /\ cp.pc = "done"
    /\ remote' = [remote EXCEPT !.branches = Append(@, sb.result[1].claudeBranch)]
    /\ session' = [session EXCEPT !.branch = Some(sb.result[1].claudeBranch),
                                  !.base = Some(sb.result[1].baseBranch),
                                  !.pr = "OPEN"]
    /\ UNCHANGED <<pcVars, githubData, env, advisor, now, git, outputs, sb, ai, cp>>

\* The pull request is closed or merged between two runs
ClosePullRequest ==
    /\ session.pr = "OPEN"
    /\ RunOver
    /\ \E st \in {"CLOSED", "MERGED"} : session' = [session EXCEPT !.pr = st]
    /\ UNCHANGED <<pcVars, branchVars, cp>>

\* A comment on the pull request triggers the next run, on a fresh runner
StartPullRequestRun ==
    /\ session.pr # "none"
    /\ RunOver
    /\ session.run < MaxRuns
    /\ context' = [context EXCEPT
                     !.eventName = "issue_comment",
                     !.eventAction = Some("created"),
                     !.payload = IssueCommentPayload,
                     !.isPR = TRUE,
                     !.entityNumber = 8]
    /\ \E n \in {5, 30} :
         githubData' = [contextData |->
                          [title |-> "Fix crash", body |-> "",
                           state |-> session.pr,
                           headRefName |-> session.branch[1],
                           baseRefName |-> session.base[1],
                           commits |-> [totalCount |-> n]]]
    /\ now' \in Clocks
    /\ git' = GitInitial(remote)
    /\ outputs' = NoOutputs
    /\ baseBranchArg' = None
    /\ claudeBranchArg' = None
    /\ prepared' = NotCalled
    /\ sb' = SBEntry
    /\ cp' = CPIdle
    /\ session' = [session EXCEPT !.run = @ + 1]
    /\ UNCHANGED <<claudeCommentId, remote, env, advisor, ai>>

RunsNext ==
    \/ SBNext
    \/ CPNext
    \/ CallCreatePrompt
    \/ OpenPullRequest
    \/ ClosePullRequest
    \/ StartPullRequestRun

SpecRuns == RunsInit /\ [][RunsNext]_vars

\* A run after the first, triggered on the pull request while it is open
RunOnOpenPullRequest == session.run > 1 /\ IsOpenPR

\* C22: once an issue run has produced working branch B and a pull request
\* with head B is open, every later run triggered on that pull request
\* works on B (currentBranch = B) and creates no branch, however many such
\* runs there are.
C22_ReusesPullRequestBranch ==
    RunOnOpenPullRequest =>
       /\ PRData.headRefName = session.branch[1]
       /\ sb.pc \notin {"name", "getRef", "create"}
       /\ sb.newBranch = None
       /\ CreatedLocally = {}
       /\ session.branch[1] \in DOMAIN git.heads => git.head = session.branch[1]
       /\ sb.pc = "returned" =>
             /\ sb.result[1].currentBranch = session.branch[1]
             /\ git.head = session.branch[1]
             /\ WorkingBranchAbsent

C22_Witness ==
    /\ RunOnOpenPullRequest
    /\ session.run = 3
    /\ session.branch = Some("claude/issue-7")
    /\ sb.pc = "returned"
    /\ sb.result[1].currentBranch = "claude/issue-7"
    /\ cp.pc = "done"

\* The run triggered on the issue
IssueRun == session.run = 1 /\ ~context.isPR

\* The failures of prepareContext for a missing working or base branch
MissingBranchErrors ==
    {"CLAUDE_BRANCH is required for issue_comment event",
     "BASE_BRANCH is required for issue_comment event",
     "BASE_BRANCH is required for issues event",
     "CLAUDE_BRANCH is required for issues event"}

\* C24: for an issue_comment or issues event on an issue, prepareContext
\* invoked before setupBranch has produced its record (both branches
\* absent) always fails, and invoked with the baseBranch and claudeBranch
\* of a record setupBranch returned for the issue it never fails for a
\* missing working branch or base branch.
C24_OrderingDependency ==
    (IssueRun /\ PCCalled) =>
       IF session.order = "promptFirst"
       THEN /\ sb.result = None
            /\ baseBranchArg = None
            /\ claudeBranchArg = None
            /\ PCFailed
            /\ prepared.error \in MissingBranchErrors
       ELSE /\ sb.pc = "returned"
            /\ ~WorkingBranchAbsent
            /\ baseBranchArg = Some(sb.result[1].baseBranch)
            /\ claudeBranchArg = Some(sb.result[1].claudeBranch)
            /\ PCFailed => prepared.error \notin MissingBranchErrors

C24_Witness ==
    /\ IssueRun
    /\ session.order = "branchFirst"
    /\ context.eventName = "issues"
    /\ PCReturned
    /\ claudeBranchArg = Some("claude/issue-7")
    /\ baseBranchArg = Some("develop")
    /\ cp.pc = "done"

C24_WitnessEarly ==
    /\ IssueRun
    /\ session.order = "promptFirst"
    /\ context.eventName = "issue_comment"
    /\ PCFailed
    /\ cp.pc = "exited"

C24_WitnessOtherFailure ==
    /\ IssueRun
    /\ session.order = "branchFirst"
    /\ PCFailed
    /\ prepared.error = "Unsupported issue action: closed"

----------------------------------------------------------------------------
(* createPrompt called with each context and argument of prepareContext *)

CPInit ==
    /\ context \in PCContexts
    /\ claudeCommentId = "1001"
    /\ baseBranchArg \in BranchArgs
    /\ claudeBranchArg \in ClaudeBranchArgs
    /\ prepared = NotCalled
    /\ BranchIdle
    /\ cp = CPEntry
    /\ session = NoSession

SpecCP == CPInit /\ [][CPNext]_vars

ExportedNames == DOMAIN cp.exported

\* C26: when prepareContext raises inside createPrompt the run is marked
\* failed with a message carrying the error and the process exits with
\* code 1; on that path the prompt file is not written and neither
\* ALLOWED_TOOLS nor DISALLOWED_TOOLS is exported.  On the success path
\* both are exported, and only after the prompt file has been written.
C26_CreatePromptFailure ==
    /\ PCFailed =>
          /\ cp.pc \in {"catch", "exited"}
          /\ cp.promptFile = None
          /\ ExportedNames = {}
          /\ cp.pc = "exited" =>
                /\ cp.failed = Some("Create prompt failed with error: Error: "
                                    \o prepared.error)
                /\ cp.exitCode = Some(1)
    /\ cp.pc = "exited" <=> cp.exitCode = Some(1)
    /\ cp.pc = "exited" <=> cp.failed # None
    /\ ExportedNames # {} => cp.promptFile # None
    /\ "DISALLOWED_TOOLS" \in ExportedNames => "ALLOWED_TOOLS" \in ExportedNames
    /\ cp.pc = "done" =>
          /\ PCReturned
          /\ cp.promptFile # None
          /\ ExportedNames = {"ALLOWED_TOOLS", "DISALLOWED_TOOLS"}

C26_Witness ==
    /\ context.eventName = "push"
    /\ PCFailed
    /\ cp.pc = "exited"
    /\ cp.failed = Some("Create prompt failed with error: Error: Unsupported event type: push")
    /\ cp.exitCode = Some(1)
    /\ cp.promptFile = None
    /\ ExportedNames = {}

C26_WitnessSuccess ==
    /\ cp.pc = "done"
    /\ cp.promptFile # None
    /\ cp.exported["DISALLOWED_TOOLS"] = "WebSearch,WebFetch,Bash"
    /\ cp.exitCode = None

====
